---- MODULE Spec2Model ----
(***************************************************************************)
(* Authentication, rate limiting and usage accounting of the UK Road       *)
(* Safety API (src/api/auth.py, src/api/routers/users.py).                 *)
(*                                                                         *)
(* Time is counted in ticks, TicksPerSecond of them in a second, so that   *)
(* the float returned by time.time() and its truncation by int() are       *)
(* different values.  The hourly window, the cache TTL and the tier        *)
(* ceilings are scaled down to small numbers; their ratios to one another  *)
(* are not used anywhere in the code.                                      *)
(***************************************************************************)
EXTENDS Integers, Sequences, FiniteSets, TLC

VARIABLES
    now,               \* the wall clock, time.time(), in ticks
    rate_limit_store,  \* _rate_limit_store: quota key -> [count, reset_at (ticks)]
    api_keys_cache,    \* _api_keys_cache: credential -> [info, cached_at (ticks)]
    users,             \* the users table: id -> [api_key, tier, is_active]
    keyseq,            \* how many keys generate_api_key has issued
    db,                \* the database: "ok", "down", "stalled", "no_users", "no_api_keys"
    reqs,              \* the requests in flight, one per slot
    rl,                \* the arguments and the result of the last check_rate_limit call
    calls,             \* history: calls of check_rate_limit per key in its current window
    tier_of,           \* the tier each quota key is called with (SpecQuota)
    accepted,          \* history: the times of the accepted calls of the keys it
                       \* is kept for (SpecBurst)
    replaced           \* history: the time the record of each of the keys it is
                       \* kept for was replaced or deactivated, 0 while in use
                       \* (SpecStale)

vars ==
    <<now, rate_limit_store, api_keys_cache, users, keyseq, db, reqs, rl, calls,
      tier_of, accepted, replaced>>

gateVars == <<api_keys_cache, users, keyseq, db, reqs>>

quotaVars == <<rl, calls, tier_of, accepted, replaced>>

\* ------------------------------------------------------------------ bounds
\* ticks in a second
TicksPerSecond == 2
\* the clock stops here
MaxTime == 7
\* the ceilings of RATE_LIMITS, 100, 5000 and 25000 in the source
FreeLimit == 2
DeveloperLimit == 3
ProfessionalLimit == 4
\* calls of check_rate_limit on one key in one window (SpecQuota)
MaxCalls == 5
\* no request arrives once a window has counted this many
MaxCount == 5

\* ------------------------------------------------- configuration (auth.py)
\* seconds in a window, 3600 in the source
RATE_LIMIT_WINDOW == 2

WindowTicks == RATE_LIMIT_WINDOW * TicksPerSecond

\* A number that may be float('inf').
Fin(n) == [inf |-> FALSE, n |-> n]

INF == [inf |-> TRUE, n |-> 0]

\* a - k, for an int k
XSub(a, k) == IF a.inf THEN INF ELSE Fin(a.n - k)

\* max(0, a)
XMax0(a) == IF a.inf THEN INF ELSE Fin(IF a.n > 0 THEN a.n ELSE 0)

\* k >= a, for an int k
IntGeq(k, a) == IF a.inf THEN FALSE ELSE k >= a.n

\* a >= b
XGeq(a, b) == IF a.inf THEN TRUE ELSE IF b.inf THEN FALSE ELSE a.n >= b.n

Tiers == {"free", "developer", "professional", "unlimited"}

FiniteTiers == {"free", "developer", "professional"}

\* "unlimited" held as a large finite ceiling
RateLimitsFiniteUnlimited(tier) ==
    CASE tier = "free" -> Fin(FreeLimit)
      [] tier = "developer" -> Fin(DeveloperLimit)
      [] tier = "professional" -> Fin(ProfessionalLimit)
      [] tier = "unlimited" -> Fin(999999)

RATE_LIMITS(tier) ==
    CASE tier = "free" -> Fin(FreeLimit)
      [] tier = "developer" -> Fin(DeveloperLimit)
      [] tier = "professional" -> Fin(ProfessionalLimit)
      [] tier = "unlimited" -> INF

\* RATE_LIMITS.get(tier, RATE_LIMITS["free"])
LimitOf(tier) == IF tier \in Tiers THEN RATE_LIMITS(tier) ELSE RATE_LIMITS("free")

\* ------------------------------------------------------- check_rate_limit
\* _rate_limit_store[key] of a defaultdict: a missing key reads as a fresh window
StoreGet(store, key) ==
    IF key \in DOMAIN store THEN store[key] ELSE [count |-> 0, reset_at |-> 0]

\* the reset taken already at the window's last instant
WindowExpiredAtBoundary(t, reset_at) == t >= reset_at

\* now > store["reset_at"]
WindowExpired(t, reset_at) == t > reset_at

ResetWindow(w, t) ==
    IF WindowExpired(t, w.reset_at)
    THEN [count |-> 0, reset_at |-> t + WindowTicks]
    ELSE w

\* the comparison off by one: the request at count = limit passes
OverLimitStrict(count, limit) == IntGeq(count, XSub(limit, -1))

\* store["count"] >= limit
OverLimit(count, limit) == IntGeq(count, limit)

\* the increment lost
IncrementLost(w) == w

\* the request counted twice
IncrementTwice(w) == [w EXCEPT !.count = @ + 2]

\* store["count"] += 1
IncrementCount(w) == [w EXCEPT !.count = @ + 1]

\* int(x) of a non-negative float of seconds, as whole seconds
IntSeconds(t) == t \div TicksPerSecond

\* the denied call counted like an accepted one
CheckRateLimitCountsDenied(store, key, tier, t) ==
    LET w == ResetWindow(StoreGet(store, key), t)
        limit == LimitOf(tier)
        remaining == XMax0(XSub(limit, w.count))
    IN  [allowed |-> ~OverLimit(w.count, limit),
         remaining |-> IF OverLimit(w.count, limit) THEN Fin(0) ELSE XSub(remaining, 1),
         reset_at |-> IntSeconds(w.reset_at),
         store |-> (key :> IncrementCount(w)) @@ store]

check_rate_limit(store, key, tier, t) ==
    LET w == ResetWindow(StoreGet(store, key), t)
        limit == LimitOf(tier)
        remaining == XMax0(XSub(limit, w.count))
    IN  IF OverLimit(w.count, limit)
        THEN [allowed |-> FALSE, remaining |-> Fin(0),
              reset_at |-> IntSeconds(w.reset_at),
              store |-> (key :> w) @@ store]
        ELSE [allowed |-> TRUE, remaining |-> XSub(remaining, 1),
              reset_at |-> IntSeconds(w.reset_at),
              store |-> (key :> IncrementCount(w)) @@ store]

\* no call of check_rate_limit recorded yet
NoCall ==
    [key |-> "", tier |-> "", t |-> 0, had |-> FALSE, reset_before |-> 0,
     count_before |-> 0, allowed |-> FALSE, remaining |-> Fin(0), reset_at |-> 0]

\* ---------------------------------------------------------------- KeyStore
\* _cache_ttl in seconds, 300 in the source
CacheTtl == 1

CacheTtlTicks == CacheTtl * TicksPerSecond

DEMO_API_KEYS == {"demo-key-free", "demo-key-dev", "demo-key-pro", "admin-key-unlimited"}

DemoTier(k) ==
    CASE k = "demo-key-free" -> "free"
      [] k = "demo-key-dev" -> "developer"
      [] k = "demo-key-pro" -> "professional"
      [] k = "admin-key-unlimited" -> "unlimited"

\* every entry of DEMO_API_KEYS has "active": True
DemoActive(k) == TRUE

\* the keys generate_api_key issues, in the order it issues them
KeyPool == <<"rsk_0", "rsk_1">>

UserIds == {1}

\* the rows of the legacy api_keys table: active keys and their tier; one of
\* them has the string of a demo key
ApiKeysTable ==
    [k \in {"legacy-key", "demo-key-dev"} |->
        IF k = "legacy-key" THEN "developer" ELSE "free"]

\* what validate_api_key returns: user_id 0 stands for a dict without "user_id"
KeyInfo(k, tier, uid) == [key |-> k, tier |-> tier, user_id |-> uid]

NONE == [key |-> "", tier |-> "", user_id |-> 0]

\* an entry served at the age of exactly the TTL
CacheFreshInclusive(t, cached_at) == t - cached_at <= CacheTtlTicks

\* time.time() - cached_at < _cache_ttl
CacheFresh(t, cached_at) == t - cached_at < CacheTtlTicks

CacheHit(cache, k, t) == k \in DOMAIN cache /\ CacheFresh(t, cache[k].cached_at)

\* SELECT ... FROM users WHERE api_key = :key AND is_active = true
UsersRows(tbl, k) == {u \in DOMAIN tbl : tbl[u].api_key = k /\ tbl[u].is_active}

\* a lookup that fails read as a match on the free tier
DbLookupFailOpen(tbl, dbs, k) ==
    IF dbs # "ok"
    THEN KeyInfo(k, "free", 0)
    ELSE IF UsersRows(tbl, k) # {}
         THEN LET u == CHOOSE x \in UsersRows(tbl, k) : TRUE
              IN  KeyInfo(k, tbl[u].tier, u)
         ELSE IF k \in DOMAIN ApiKeysTable
              THEN KeyInfo(k, ApiKeysTable[k], 0)
              ELSE NONE

\* the two queries of validate_api_key; an exception leaves the try block
DbLookup(tbl, dbs, k) ==
    IF dbs \in {"down", "no_users"}
    THEN NONE
    ELSE IF UsersRows(tbl, k) # {}
         THEN LET u == CHOOSE x \in UsersRows(tbl, k) : TRUE
              IN  KeyInfo(k, tbl[u].tier, u)
         ELSE IF dbs = "no_api_keys"
              THEN NONE
              ELSE IF k \in DOMAIN ApiKeysTable
                   THEN KeyInfo(k, ApiKeysTable[k], 0)
                   ELSE NONE

\* the tables asked before the registry
ValidateStoreFirst(cache, tbl, dbs, k, t) ==
    LET found == DbLookup(tbl, dbs, k)
    IN  IF k = ""
        THEN [info |-> NONE, cache |-> cache]
        ELSE IF found # NONE
             THEN [info |-> found, cache |-> cache]
             ELSE [info |-> IF k \in DEMO_API_KEYS THEN KeyInfo(k, DemoTier(k), 0)
                            ELSE NONE,
                   cache |-> cache]

\* the whole call in one step: the two readings of time.time(), before and
\* after the queries, are one instant (GuardQuery and GuardResume are the call
\* whose queries take time)
validate_api_key(cache, tbl, dbs, k, t) ==
    IF k = ""
    THEN [info |-> NONE, cache |-> cache]
    ELSE IF k \in DEMO_API_KEYS
         THEN [info |-> IF DemoActive(k) THEN KeyInfo(k, DemoTier(k), 0) ELSE NONE,
               cache |-> cache]
         ELSE IF CacheHit(cache, k, t)
              THEN [info |-> cache[k].info, cache |-> cache]
              ELSE LET found == DbLookup(tbl, dbs, k)
                   IN  IF found # NONE
                       THEN [info |-> found,
                             cache |-> (k :> [info |-> found, cached_at |-> t]) @@ cache]
                       ELSE [info |-> NONE, cache |-> cache]

\* ---------------------------------------------------------------- AuthGate
\* the allowlist without the root path
PublicPathsWithoutRoot == {"/health", "/docs", "/redoc", "/openapi.json"}

PublicPaths == {"/health", "/", "/docs", "/redoc", "/openapi.json"}

DASHBOARD_REMAINING == 999999

\* f"user_{user_id}"
UserQuotaKey(uid) == CASE uid = 1 -> "user_1" [] uid = 2 -> "user_2"

\* f"anon_{client_ip}"
AnonKey(ip) ==
    CASE ip = "10.0.0.1" -> "anon_10.0.0.1"
      [] ip = "10.0.0.2" -> "anon_10.0.0.2"
      [] ip = "unknown" -> "anon_unknown"

\* the quota keyed on the raw key string, whoever the user is
RateLimitKeyRaw(info, k) == k

\* f"user_{key_info.get('user_id')}" if key_info.get('user_id') else api_key
RateLimitKey(info, k) == IF info.user_id # 0 THEN UserQuotaKey(info.user_id) ELSE k

\* the X-Dashboard header ignored
IsDashboardNever(x_dashboard) == FALSE

\* request.headers.get("X-Dashboard") == "true"
IsDashboard(x_dashboard) == x_dashboard = "true"

\* int(x) of a float of seconds of either sign: truncation towards zero
IntTrunc(ticks) ==
    IF ticks >= 0 THEN ticks \div TicksPerSecond ELSE -((-ticks) \div TicksPerSecond)

\* int(reset_at - time.time()), reset_at in whole seconds
RetryAfter(reset_at, t) == IntTrunc(reset_at * TicksPerSecond - t)

\* the attributes of request.state; has_rl: rate_limit_remaining is set
NoState ==
    [has_rl |-> FALSE, remaining |-> Fin(0), reset |-> 0, limit |-> Fin(0),
     api_key |-> "", tier |-> "", user_id |-> 0, is_dashboard |-> FALSE]

\* response headers: each the set of its values, empty when the header is absent
NoHeaders == [limit |-> {}, remaining |-> {}, reset |-> {}, retry |-> {}, www |-> {}]

\* the outcome of a guard: status 0 when it returns, else the HTTPException's;
\* detail is the text of the exception, sentence by sentence
GuardResult(status, detail, headers, info, st, qkey, store, cache) ==
    [status |-> status, detail |-> detail, headers |-> headers, info |-> info,
     st |-> st, qkey |-> qkey, store |-> store, cache |-> cache]

\* the detail of the 401 of a request without credential, given to the
\* unresolved credential too
DetailKeyInvalidAsRequired ==
    <<"API key required", "Include 'X-API-Key' header or 'api_key' query parameter">>

DetailKeyRequired ==
    <<"API key required", "Include 'X-API-Key' header or 'api_key' query parameter">>

DetailKeyInvalid == <<"Invalid API key">>

\* the detail has the sentence
Mentions(detail, sentence) == \E i \in DOMAIN detail : detail[i] = sentence

\* the ceiling shown to a dashboard request
DashboardRemaining(limit) == IF limit.inf THEN Fin(DASHBOARD_REMAINING) ELSE limit

\* the headers of the 429 of require_api_key
QuotaHeaders(limit, reset_at, t) ==
    [limit |-> {limit}, remaining |-> {Fin(0)}, reset |-> {reset_at},
     retry |-> {RetryAfter(reset_at, t)}, www |-> {}]

\* the dashboard flag looked at before the credential: a flagged request is
\* let through as it comes
RequireDashboardFirst(req, store, cache, tbl, dbs, t) ==
    IF req.path \in PublicPaths
    THEN GuardResult(0, <<>>, NoHeaders, KeyInfo("public", "free", 0), NoState, "",
                     store, cache)
    ELSE IF IsDashboard(req.x_dashboard)
    THEN GuardResult(0, <<>>, NoHeaders, KeyInfo(req.api_key, "free", 0),
                     [NoState EXCEPT !.is_dashboard = TRUE], "", store, cache)
    ELSE IF req.api_key = ""
    THEN GuardResult(401, DetailKeyRequired,
                     [NoHeaders EXCEPT !.www = {"API key required"}],
                     NONE, NoState, "", store, cache)
    ELSE LET v == validate_api_key(cache, tbl, dbs, req.api_key, t)
             qkey == RateLimitKey(v.info, req.api_key)
             c == check_rate_limit(store, qkey, v.info.tier, t)
             st == [NoState EXCEPT !.has_rl = TRUE, !.remaining = c.remaining,
                                   !.reset = c.reset_at, !.limit = LimitOf(v.info.tier),
                                   !.api_key = req.api_key, !.tier = v.info.tier,
                                   !.user_id = v.info.user_id]
         IN  IF v.info = NONE
             THEN GuardResult(401, DetailKeyInvalid,
                              [NoHeaders EXCEPT !.www = {"API key invalid"}],
                              NONE, NoState, "", store, v.cache)
             ELSE IF ~c.allowed
             THEN GuardResult(429, <<"Rate limit exceeded", "Resets at">>,
                              QuotaHeaders(LimitOf(v.info.tier), c.reset_at, t),
                              v.info, st, qkey, c.store, v.cache)
             ELSE GuardResult(0, <<>>, NoHeaders, v.info, st, qkey, c.store, v.cache)

\* the readings of time.time() in one call are one instant
require_api_key(req, store, cache, tbl, dbs, t) ==
    IF req.path \in PublicPaths
    THEN GuardResult(0, <<>>, NoHeaders, KeyInfo("public", "free", 0), NoState, "",
                     store, cache)
    ELSE IF req.api_key = ""
    THEN GuardResult(401, DetailKeyRequired,
                     [NoHeaders EXCEPT !.www = {"API key required"}],
                     NONE, NoState, "", store, cache)
    ELSE LET v == validate_api_key(cache, tbl, dbs, req.api_key, t)
             is_dashboard == IsDashboard(req.x_dashboard)
             st0 == [NoState EXCEPT !.api_key = req.api_key, !.tier = v.info.tier,
                                    !.user_id = v.info.user_id,
                                    !.is_dashboard = is_dashboard]
             limit == LimitOf(v.info.tier)
         IN  IF v.info = NONE
             THEN GuardResult(401, DetailKeyInvalid,
                              [NoHeaders EXCEPT !.www = {"API key invalid"}],
                              NONE, NoState, "", store, v.cache)
             ELSE IF is_dashboard
             THEN GuardResult(0, <<>>, NoHeaders, v.info,
                              [st0 EXCEPT !.has_rl = TRUE,
                                          !.remaining = DashboardRemaining(limit),
                                          !.reset = IntSeconds(t + WindowTicks),
                                          !.limit = limit],
                              "", store, v.cache)
             ELSE LET qkey == RateLimitKey(v.info, req.api_key)
                      c == check_rate_limit(store, qkey, v.info.tier, t)
                      st == [st0 EXCEPT !.has_rl = TRUE, !.remaining = c.remaining,
                                        !.reset = c.reset_at, !.limit = limit]
                  IN  IF ~c.allowed
                      THEN GuardResult(429, <<"Rate limit exceeded", "Resets at">>,
                                       QuotaHeaders(limit, c.reset_at, t),
                                       v.info, st, qkey, c.store, v.cache)
                      ELSE GuardResult(0, <<>>, NoHeaders, v.info, st, qkey, c.store,
                                       v.cache)

\* an anonymous caller let through without a quota check
AnonymousBypass(req, store, cache, t) ==
    GuardResult(0, <<>>, NoHeaders, KeyInfo(AnonKey(req.ip), "free", 0), NoState,
                AnonKey(req.ip), store, cache)

\* the anonymous branch of optional_api_key
AnonymousAccess(req, store, cache, t) ==
    LET anonymous_key == AnonKey(req.ip)
        c == check_rate_limit(store, anonymous_key, "free", t)
        st == [NoState EXCEPT !.has_rl = TRUE, !.remaining = c.remaining,
                              !.reset = c.reset_at, !.limit = RATE_LIMITS("free"),
                              !.api_key = anonymous_key, !.tier = "free"]
    IN  IF ~c.allowed
        THEN GuardResult(429, <<"Rate limit exceeded", "Get an API key for higher limits">>,
                         NoHeaders, NONE, st, anonymous_key, c.store, cache)
        ELSE GuardResult(0, <<>>, NoHeaders, KeyInfo(anonymous_key, "free", 0), st,
                         anonymous_key, c.store, cache)

\* a credential that is sent is required to be valid, as in require_api_key
OptionalRejectsInvalid(req, store, cache, tbl, dbs, t) ==
    IF req.api_key = ""
    THEN AnonymousAccess(req, store, cache, t)
    ELSE require_api_key(req, store, cache, tbl, dbs, t)

\* a credential that resolves to nothing is counted in a window of its own
OptionalCountsCredential(req, store, cache, tbl, dbs, t) ==
    LET v == validate_api_key(cache, tbl, dbs, req.api_key, t)
    IN  IF req.api_key # "" /\ v.info = NONE
        THEN LET c == check_rate_limit(store, req.api_key, "free", t)
                 st == [NoState EXCEPT !.has_rl = TRUE, !.remaining = c.remaining,
                                       !.reset = c.reset_at,
                                       !.limit = RATE_LIMITS("free"),
                                       !.api_key = req.api_key, !.tier = "free"]
             IN  IF ~c.allowed
                 THEN GuardResult(429, <<"Rate limit exceeded">>, NoHeaders, NONE, st,
                                  req.api_key, c.store, v.cache)
                 ELSE GuardResult(0, <<>>, NoHeaders, KeyInfo(req.api_key, "free", 0),
                                  st, req.api_key, c.store, v.cache)
        ELSE IF req.api_key = ""
        THEN AnonymousAccess(req, store, v.cache, t)
        ELSE require_api_key([req EXCEPT !.x_dashboard = ""], store, cache, tbl, dbs, t)

optional_api_key(req, store, cache, tbl, dbs, t) ==
    LET v == validate_api_key(cache, tbl, dbs, req.api_key, t)
    IN  IF req.api_key # "" /\ v.info # NONE
        THEN LET qkey == RateLimitKey(v.info, req.api_key)
                 c == check_rate_limit(store, qkey, v.info.tier, t)
                 st == [NoState EXCEPT !.has_rl = TRUE, !.remaining = c.remaining,
                                       !.reset = c.reset_at,
                                       !.limit = LimitOf(v.info.tier),
                                       !.api_key = req.api_key, !.tier = v.info.tier]
             IN  IF ~c.allowed
                 THEN GuardResult(429, <<"Rate limit exceeded">>, NoHeaders, v.info, st,
                                  qkey, c.store, v.cache)
                 ELSE GuardResult(0, <<>>, NoHeaders, v.info, st, qkey, c.store, v.cache)
        ELSE AnonymousAccess(req, store, v.cache, t)

\* ---------------------------------------------------------- RequestPipeline
NReq == 3

Slots == 1..NReq

\* the query parameter preferred to the header
QueryFirst(api_key_header, api_key_query) ==
    IF api_key_query # "" THEN api_key_query ELSE api_key_header

\* return api_key_header or api_key_query; "" stands for an absent value
get_api_key(api_key_header, api_key_query) ==
    IF api_key_header # "" THEN api_key_header ELSE api_key_query

\* request.headers.get("X-API-Key") or request.query_params.get("api_key")
DispatchApiKey(header, query) == IF header # "" THEN header ELSE query

\* found: what the queries of validate_api_key returned, while the call goes on;
\* header, query: the X-API-Key header and the api_key parameter as sent;
\* api_key: the credential get_api_key hands to the guard; mw_key: the one
\* dispatch keeps; usage_calls: the calls of log_api_usage made for the request;
\* usage: the rows they added to api_usage
IdleReq ==
    [pc |-> "idle", guard |-> "", path |-> "", header |-> "", query |-> "",
     api_key |-> "", mw_key |-> "", x_dashboard |-> "",
     ip |-> "", status |-> 0, detail |-> <<>>, info |-> NONE, qkey |-> "",
     st |-> NoState, headers |-> NoHeaders, usage_calls |-> <<>>, usage |-> <<>>,
     found |-> NONE]

GateIdle ==
    /\ api_keys_cache = <<>>
    /\ users = [u \in UserIds |-> [api_key |-> KeyPool[1], tier |-> "free",
                                   is_active |-> TRUE]]
    /\ keyseq = 1
    /\ db = "ok"
    /\ reqs = [r \in Slots |-> IdleReq]

\* a request reaches the application: dispatch reads the credential and the
\* dashboard flag, and the route's guard is about to run
Arrive(r, guard, path, header, query, x_dashboard, ip) ==
    /\ reqs[r].pc \in {"idle", "done"}
    /\ \A q \in DOMAIN rate_limit_store : rate_limit_store[q].count < MaxCount
    /\ reqs' = [reqs EXCEPT ![r] =
                   [IdleReq EXCEPT !.pc = "guard", !.guard = guard, !.path = path,
                                   !.header = header, !.query = query,
                                   !.api_key = get_api_key(header, query),
                                   !.mw_key = DispatchApiKey(header, query),
                                   !.x_dashboard = x_dashboard, !.ip = ip]]
    /\ UNCHANGED <<now, rate_limit_store, api_keys_cache, users, keyseq, db, quotaVars>>

\* a route with no guard among its dependencies
NoGuard(store, cache) ==
    GuardResult(0, <<>>, NoHeaders, NONE, NoState, "", store, cache)

\* validate_api_key goes to the database for credential k
QueriesStore(cache, k, t) ==
    k # "" /\ k \notin DEMO_API_KEYS /\ ~CacheHit(cache, k, t)

\* the guard of request q calls validate_api_key
GuardValidates(q) ==
    \/ q.guard = "require" /\ q.path \notin PublicPaths /\ q.api_key # ""
    \/ q.guard = "optional"

\* the guard of the route runs: require_api_key or optional_api_key; its
\* queries are synchronous calls, which a database that does not answer holds
Guard(r) ==
    /\ reqs[r].pc = "guard"
    /\ ~(/\ db = "stalled"
          /\ GuardValidates(reqs[r])
          /\ QueriesStore(api_keys_cache, reqs[r].api_key, now))
    /\ LET g == IF reqs[r].guard = "require"
                THEN require_api_key(reqs[r], rate_limit_store, api_keys_cache,
                                     users, db, now)
                ELSE IF reqs[r].guard = "optional"
                THEN optional_api_key(reqs[r], rate_limit_store, api_keys_cache,
                                      users, db, now)
                ELSE NoGuard(rate_limit_store, api_keys_cache)
       IN  /\ rate_limit_store' = g.store
           /\ api_keys_cache' = g.cache
           /\ reqs' = [reqs EXCEPT ![r] =
                          [@ EXCEPT !.pc = IF g.status = 0 THEN "handler" ELSE "respond",
                                    !.status = g.status, !.detail = g.detail,
                                    !.info = g.info, !.qkey = g.qkey, !.st = g.st,
                                    !.headers = g.headers]]
    /\ UNCHANGED <<now, users, keyseq, db, quotaVars>>

\* validate_api_key of the guard of request r, for a credential that is not in
\* the registry and has no cache entry younger than the TTL: the queries
GuardQuery(r) ==
    /\ reqs[r].pc = "guard"
    /\ GuardValidates(reqs[r])
    /\ QueriesStore(api_keys_cache, reqs[r].api_key, now)
    /\ db # "stalled"
    /\ reqs' = [reqs EXCEPT ![r] =
                   [@ EXCEPT !.pc = "query",
                             !.found = DbLookup(users, db, reqs[r].api_key)]]
    /\ UNCHANGED <<now, rate_limit_store, api_keys_cache, users, keyseq, db, quotaVars>>

\* the queries have returned: the cache entry is written with time.time() read
\* now, and the guard goes on with what they found
GuardResume(r) ==
    /\ reqs[r].pc = "query"
    /\ LET q == reqs[r]
           written == (q.api_key :> [info |-> q.found, cached_at |-> now])
                          @@ api_keys_cache
           g == IF q.found # NONE
                THEN IF q.guard = "require"
                     THEN require_api_key(q, rate_limit_store, written, users, db, now)
                     ELSE optional_api_key(q, rate_limit_store, written, users, db, now)
                ELSE IF q.guard = "require"
                     THEN GuardResult(401, DetailKeyInvalid,
                                      [NoHeaders EXCEPT !.www = {"API key invalid"}],
                                      NONE, NoState, "", rate_limit_store, api_keys_cache)
                     ELSE AnonymousAccess(q, rate_limit_store, api_keys_cache, now)
       IN  /\ rate_limit_store' = g.store
           /\ api_keys_cache' = g.cache
           /\ reqs' = [reqs EXCEPT ![r] =
                          [@ EXCEPT !.pc = IF g.status = 0 THEN "handler" ELSE "respond",
                                    !.status = g.status, !.detail = g.detail,
                                    !.info = g.info, !.qkey = g.qkey, !.st = g.st,
                                    !.headers = g.headers]]
    /\ UNCHANGED <<now, users, keyseq, db, quotaVars>>

\* the route's handler runs
Handler(r) ==
    /\ reqs[r].pc = "handler"
    /\ reqs' = [reqs EXCEPT ![r] = [@ EXCEPT !.pc = "respond", !.status = 200]]
    /\ UNCHANGED <<now, rate_limit_store, api_keys_cache, users, keyseq, db, quotaVars>>

\* the handler, or the router that finds no route, raises HTTPException(code):
\* the exception handlers inside the middleware turn it into a response
HandlerFails(r, code) ==
    /\ reqs[r].pc = "handler"
    /\ reqs' = [reqs EXCEPT ![r] = [@ EXCEPT !.pc = "respond", !.status = code]]
    /\ UNCHANGED <<now, rate_limit_store, api_keys_cache, users, keyseq, db, quotaVars>>

\* the handler raises an exception no handler inside the middleware takes:
\* call_next raises it in dispatch, which ends there, and the 500 handler of
\* the application answers
HandlerRaises(r) ==
    /\ reqs[r].pc = "handler"
    /\ reqs' = [reqs EXCEPT ![r] =
                   [@ EXCEPT !.pc = "done", !.status = 500, !.headers = NoHeaders]]
    /\ UNCHANGED <<now, rate_limit_store, api_keys_cache, users, keyseq, db, quotaVars>>

\* RateLimitMiddleware.dispatch after call_next: the rate-limit headers
RateLimitHeaders(st, headers) ==
    IF st.has_rl
    THEN [headers EXCEPT !.limit = {st.limit}, !.remaining = {st.remaining},
                         !.reset = {st.reset}]
    ELSE headers

\* if api_key and not is_dashboard
LogsUsage(q) == q.mw_key # "" /\ ~IsDashboard(q.x_dashboard)

\* the arguments dispatch passes to log_api_usage; user_id 0 stands for None
UsageArgs(q) ==
    [api_key |-> q.mw_key, endpoint |-> q.path, status_code |-> q.status,
     ip_address |-> q.ip, user_id |-> q.st.user_id]

\* the row of the INSERT
UsageRow(a) == [a EXCEPT !.api_key = IF a.api_key = "" THEN "anonymous" ELSE a.api_key]

\* the exception of a failed INSERT let through to the caller
LogApiUsageUnguarded(a, dbs) ==
    [raised |-> dbs = "down", rows |-> IF dbs = "down" THEN <<>> ELSE <<UsageRow(a)>>]

\* try: INSERT INTO api_usage ...; except Exception: pass
log_api_usage(a, dbs) ==
    [raised |-> FALSE, rows |-> IF dbs = "down" THEN <<>> ELSE <<UsageRow(a)>>]

\* dispatch after call_next: the headers, the usage record, the response.
\* log_api_usage is called in dispatch itself, a synchronous call that a
\* database that does not answer holds; an exception out of dispatch is
\* answered 500 by the application's handler.
Respond(r) ==
    /\ reqs[r].pc = "respond"
    /\ ~(db = "stalled" /\ LogsUsage(reqs[r]))
    /\ LET q == reqs[r]
           res == log_api_usage(UsageArgs(q), db)
           failed == LogsUsage(q) /\ res.raised
       IN  reqs' = [reqs EXCEPT ![r] =
                       [@ EXCEPT !.pc = "done",
                                 !.status = IF failed THEN 500 ELSE q.status,
                                 !.headers = IF failed THEN NoHeaders
                                             ELSE RateLimitHeaders(q.st, q.headers),
                                 !.usage_calls = IF LogsUsage(q) THEN <<UsageArgs(q)>>
                                                 ELSE <<>>,
                                 !.usage = IF LogsUsage(q) THEN res.rows ELSE <<>>]]
    /\ UNCHANGED <<now, rate_limit_store, api_keys_cache, users, keyseq, db, quotaVars>>

\* POST /regenerate-api-key
regenerate_api_key(u) ==
    /\ users[u].is_active
    /\ keyseq < Len(KeyPool)
    /\ \A r \in Slots : reqs[r].pc # "query"
    /\ users' = [users EXCEPT ![u].api_key = KeyPool[keyseq + 1]]
    /\ keyseq' = keyseq + 1
    /\ replaced' = IF users[u].api_key \in DOMAIN replaced
                   THEN [replaced EXCEPT ![users[u].api_key] = now]
                   ELSE replaced
    /\ UNCHANGED <<now, rate_limit_store, api_keys_cache, db, reqs, rl, calls, tier_of,
                   accepted>>

\* the row of user u is deactivated in the database: no endpoint does it, the
\* queries only read is_active, so it happens whatever the process is doing
deactivate(u) ==
    /\ users[u].is_active
    /\ users' = [users EXCEPT ![u].is_active = FALSE]
    /\ replaced' = IF users[u].api_key \in DOMAIN replaced
                   THEN [replaced EXCEPT ![users[u].api_key] = now]
                   ELSE replaced
    /\ UNCHANGED <<now, rate_limit_store, api_keys_cache, keyseq, db, reqs, rl, calls,
                   tier_of, accepted>>

\* the database, or one of its tables, goes away or comes back
SetDb(s) ==
    /\ db # s
    /\ db' = s
    /\ UNCHANGED <<now, rate_limit_store, api_keys_cache, users, keyseq, reqs, quotaVars>>

InitGate ==
    /\ now \in 1..TicksPerSecond
    /\ rate_limit_store = <<>>
    /\ rl = NoCall
    /\ calls = <<>>
    /\ tier_of = <<>>
    /\ accepted = <<>>
    /\ replaced = <<>>
    /\ GateIdle

\* what the two tables hold for credential k
StoreAnswers(k) ==
    {KeyInfo(k, users[u].tier, u) : u \in {x \in UserIds : users[x].api_key = k /\ users[x].is_active}}
        \cup {KeyInfo(k, ApiKeysTable[x], 0) : x \in DOMAIN ApiKeysTable \cap {k}}

\* a credential nothing can resolve: not in the registry, not in the cache,
\* in neither table
Unresolvable(k) ==
    /\ k # ""
    /\ k \notin DEMO_API_KEYS
    /\ k \notin DOMAIN api_keys_cache
    /\ StoreAnswers(k) = {}

\* ------------------------------------------------------------- SpecQuota
QuotaKeys == {"demo-key-free", "user_1"}

CallTiers == Tiers \cup {"enterprise"}

InitQuota ==
    /\ now \in 1..TicksPerSecond
    /\ rate_limit_store = <<>>
    /\ rl = NoCall
    /\ calls = [k \in QuotaKeys |-> 0]
    /\ tier_of \in [QuotaKeys -> CallTiers]
    /\ accepted = <<>>
    /\ replaced = <<>>
    /\ GateIdle

Tick ==
    /\ now < MaxTime
    /\ now' = now + 1
    /\ UNCHANGED <<rate_limit_store, quotaVars, gateVars>>

CallCheckRateLimit(key) ==
    LET before == StoreGet(rate_limit_store, key)
        res == check_rate_limit(rate_limit_store, key, tier_of[key], now)
        fresh == res.store[key].reset_at # before.reset_at
    IN  /\ calls[key] < MaxCalls
        /\ rate_limit_store' = res.store
        /\ rl' = [key |-> key, tier |-> tier_of[key], t |-> now,
                  had |-> key \in DOMAIN rate_limit_store,
                  reset_before |-> before.reset_at,
                  count_before |-> before.count,
                  allowed |-> res.allowed, remaining |-> res.remaining,
                  reset_at |-> res.reset_at]
        /\ calls' = [calls EXCEPT ![key] = IF fresh THEN 1 ELSE @ + 1]
        /\ accepted' = IF key \in DOMAIN accepted /\ res.allowed
                       THEN [accepted EXCEPT ![key] = Append(@, now)]
                       ELSE accepted
        /\ UNCHANGED <<now, tier_of, replaced, gateVars>>

NextQuota ==
    \/ Tick
    \/ \E key \in QuotaKeys : CallCheckRateLimit(key)

SpecQuota == InitQuota /\ [][NextQuota]_vars

\* C1: within one window check_rate_limit accepts exactly the first `limit`
\* calls of a key on a finite tier and denies call limit+1 with remaining 0;
\* the limit-th call, the last one accepted, reports remaining 0.
C1_FirstLimitCallsAccepted ==
    \A k \in QuotaKeys :
        (rl.key = k /\ tier_of[k] \in FiniteTiers) =>
            LET limit == RATE_LIMITS(tier_of[k]).n
            IN  /\ rl.allowed <=> calls[k] <= limit
                /\ calls[k] = limit => rl.remaining = Fin(0)
                /\ calls[k] = limit + 1 => (~rl.allowed /\ rl.remaining = Fin(0))

\* the call after the last accepted one of a professional-tier window is denied
C1_Witness ==
    \E k \in QuotaKeys :
        /\ rl.key = k
        /\ tier_of[k] = "professional"
        /\ calls[k] = ProfessionalLimit + 1
        /\ ~rl.allowed

\* C5: a call made strictly after the window's resetAt, or for a key with no
\* window yet, is accepted, leaves count = 1 and sets resetAt = now + window;
\* a call made at a time not greater than resetAt does not reset the window.
C5_WindowReset ==
    rl.key # "" =>
        LET w == rate_limit_store[rl.key]
        IN  IF ~rl.had \/ rl.t > rl.reset_before
            THEN rl.allowed /\ w.count = 1 /\ w.reset_at = rl.t + WindowTicks
            ELSE w.reset_at = rl.reset_before /\ w.count >= rl.count_before

\* an exhausted window is replaced by a call made after its resetAt
C5_Witness ==
    /\ rl.had
    /\ rl.t > rl.reset_before
    /\ rl.count_before >= FreeLimit
    /\ rl.allowed
    /\ rate_limit_store[rl.key].count = 1

\* C24: for a key whose calls all use one finite tier, the window's count stays
\* in 0..limit; an accepted call returns remaining = limit - count, the count
\* read after the call's own increment, a value in 0..limit-1; and of two
\* consecutive accepted calls of one window the second returns one less.
C24_CounterInvariant ==
    /\ [](\A k \in QuotaKeys :
             (k \in DOMAIN rate_limit_store /\ tier_of[k] \in FiniteTiers) =>
                 LET limit == RATE_LIMITS(tier_of[k]).n
                     count == rate_limit_store[k].count
                 IN  /\ 0 <= count /\ count <= limit
                     /\ (rl.key = k /\ rl.allowed)
                            => /\ rl.remaining = Fin(limit - count)
                               /\ rl.remaining.n \in 0..(limit - 1))
    /\ [][ (/\ calls' # calls
            /\ rl.key = rl'.key
            /\ tier_of[rl'.key] \in FiniteTiers
            /\ rl.allowed /\ rl'.allowed
            /\ rate_limit_store'[rl'.key].reset_at = rate_limit_store[rl.key].reset_at)
           => rl'.remaining = Fin(rl.remaining.n - 1)
       ]_vars

\* the last slot of a developer-tier window taken: count at the ceiling,
\* remaining 0 returned with the acceptance
C24_Witness ==
    \E k \in QuotaKeys :
        /\ rl.key = k
        /\ tier_of[k] = "developer"
        /\ rl.allowed
        /\ rl.remaining = Fin(0)
        /\ rate_limit_store[k].count = DeveloperLimit
        /\ rl.count_before = DeveloperLimit - 1

\* -------------------------------------------------------------- SpecBurst
\* calls of check_rate_limit on one key of a finite tier, the times of the
\* accepted ones kept
BurstKeys == {"demo-key-free"}

InitBurst ==
    /\ now \in 1..TicksPerSecond
    /\ rate_limit_store = <<>>
    /\ rl = NoCall
    /\ calls = [k \in BurstKeys |-> 0]
    /\ tier_of \in [BurstKeys -> FiniteTiers]
    /\ accepted = [k \in BurstKeys |-> <<>>]
    /\ replaced = <<>>
    /\ GateIdle

NextBurst ==
    \/ Tick
    \/ \E key \in BurstKeys : CallCheckRateLimit(key)

SpecBurst == InitBurst /\ [][NextBurst]_vars

\* the calls of key k accepted at a time in [a, a + WindowTicks]
AcceptedIn(k, a) ==
    {i \in DOMAIN accepted[k] : a <= accepted[k][i] /\ accepted[k][i] <= a + WindowTicks}

\* C26: with a clock that never goes backwards, the calls of one key on a
\* finite tier accepted in any interval as long as the window are at most
\* twice the ceiling; and a window that replaces another starts after the
\* resetAt of the one it replaces.
C26_BurstBound ==
    /\ [](\A k \in BurstKeys : \A a \in 0..MaxTime :
             Cardinality(AcceptedIn(k, a)) <= 2 * RATE_LIMITS(tier_of[k]).n)
    /\ [][ \A k \in BurstKeys :
             (/\ k \in DOMAIN rate_limit_store
              /\ rate_limit_store'[k].reset_at # rate_limit_store[k].reset_at)
                => /\ rate_limit_store'[k].reset_at - WindowTicks
                         > rate_limit_store[k].reset_at
                   /\ now' >= now
       ]_vars

\* the burst at the boundary: the last slot of one free-tier window taken at
\* its end and the whole ceiling of the next at its start, more than the
\* ceiling within one window's length (the call that opened the first window
\* is a window's length and more before the second)
C26_Witness ==
    \E k \in BurstKeys :
        /\ tier_of[k] = "free"
        /\ Len(accepted[k]) = 2 * FreeLimit
        /\ \E a \in 0..MaxTime : Cardinality(AcceptedIn(k, a)) = 2 * FreeLimit - 1
        /\ rate_limit_store[k].count = FreeLimit

\* --------------------------------------------------------------- SpecGate
\* one request at a time through require_api_key
GateKeys == {"", "demo-key-free", "admin-key-unlimited", "bogus"}

DashboardValues == {"", "true"}

NextGate ==
    \/ Tick
    \/ \E k \in GateKeys, d \in DashboardValues :
          Arrive(1, "require", "/api/v1/accidents", k, "", d, "10.0.0.1")
    \/ Guard(1)
    \/ Handler(1)
    \/ Respond(1)

SpecGate == InitGate /\ [][NextGate]_vars

\* the guard of request r has just run
GuardRan(r) == reqs[r].pc = "guard" /\ reqs'[r].pc # "guard"

\* C4: a request through require_api_key with a valid credential and
\* X-Dashboard: true changes no quota window (none created, no count
\* incremented, no resetAt moved) and is never answered 429, whatever the
\* count of the identity's window.
C4_DashboardExempt ==
    /\ [][ (/\ GuardRan(1)
            /\ reqs[1].guard = "require"
            /\ reqs[1].x_dashboard = "true"
            /\ reqs'[1].info # NONE)
           => (rate_limit_store' = rate_limit_store /\ reqs'[1].status # 429)
       ]_vars
    /\ [](\A r \in Slots :
             (/\ reqs[r].guard = "require"
              /\ reqs[r].x_dashboard = "true"
              /\ reqs[r].info # NONE)
                 => reqs[r].status # 429)

\* a dashboard request answered 200 while its identity's window is at its limit
C4_Witness ==
    /\ reqs[1].pc = "done"
    /\ reqs[1].x_dashboard = "true"
    /\ reqs[1].api_key = "demo-key-free"
    /\ reqs[1].status = 200
    /\ "demo-key-free" \in DOMAIN rate_limit_store
    /\ rate_limit_store["demo-key-free"].count = FreeLimit
    /\ now <= rate_limit_store["demo-key-free"].reset_at

\* C7: a credential of tier unlimited is never denied by the quota check, and
\* the X-RateLimit-Remaining reported for each of its requests is never below
\* the large sentinel, however many requests the window has counted.
C7_UnlimitedNeverDenied ==
    \A r \in Slots :
        (reqs[r].info.tier = "unlimited" /\ reqs[r].pc \in {"handler", "respond", "done"})
            => /\ reqs[r].status # 429
               /\ XGeq(reqs[r].st.remaining, Fin(DASHBOARD_REMAINING))
               /\ reqs[r].pc = "done" =>
                      /\ reqs[r].headers.remaining # {}
                      /\ \A v \in reqs[r].headers.remaining :
                            XGeq(v, Fin(DASHBOARD_REMAINING))

\* an unlimited-tier request counted after MaxCount - 1 others in its window,
\* answered 200 with a remaining that did not decrease
C7_Witness ==
    /\ reqs[1].pc = "done"
    /\ reqs[1].api_key = "admin-key-unlimited"
    /\ reqs[1].x_dashboard = ""
    /\ reqs[1].status = 200
    /\ rate_limit_store["admin-key-unlimited"].count = MaxCount
    /\ reqs[1].headers.remaining = {INF}

\* C9: every 429 of require_api_key carries a Retry-After greater than 0, at
\* every time the denied request can arrive inside the window.
C9_RetryAfterPositive ==
    \A r \in Slots :
        (reqs[r].guard = "require" /\ reqs[r].status = 429)
            => /\ reqs[r].headers.retry # {}
               /\ \A v \in reqs[r].headers.retry : v > 0

\* C11: on a non-public route guarded by require_api_key a request without
\* credential is rejected 401 with a detail that has "API key required", a
\* request whose credential resolves to no identity is rejected 401 with a
\* detail that has "Invalid API key"; neither detail has the other's sentence,
\* and neither request is answered 429 or reaches the handler.
C11_RejectionDetails ==
    /\ [][ (GuardRan(1) /\ reqs[1].guard = "require" /\ reqs[1].path \notin PublicPaths)
           => /\ reqs[1].api_key = ""
                    => /\ reqs'[1].status = 401
                       /\ reqs'[1].pc = "respond"
                       /\ Mentions(reqs'[1].detail, "API key required")
                       /\ ~Mentions(reqs'[1].detail, "Invalid API key")
              /\ Unresolvable(reqs[1].api_key)
                    => /\ reqs'[1].status = 401
                       /\ reqs'[1].pc = "respond"
                       /\ Mentions(reqs'[1].detail, "Invalid API key")
                       /\ ~Mentions(reqs'[1].detail, "API key required")
       ]_vars
    /\ [](\A r \in Slots :
             (/\ reqs[r].guard = "require"
              /\ reqs[r].path \notin PublicPaths
              /\ reqs[r].pc \in {"handler", "respond", "done"}
              /\ (reqs[r].api_key = "" \/ reqs[r].info = NONE))
                 => reqs[r].status = 401 /\ reqs[r].pc # "handler")

\* an unknown key answered 401 "Invalid API key", the rejection written to the
\* usage log
C11_Witness ==
    /\ reqs[1].pc = "done"
    /\ reqs[1].api_key = "bogus"
    /\ reqs[1].status = 401
    /\ reqs[1].detail = <<"Invalid API key">>
    /\ reqs[1].headers.www = {"API key invalid"}
    /\ reqs[1].usage # <<>>

\* C22: X-Dashboard: true exempts from the quota, not from authentication: on
\* a non-public route guarded by require_api_key a flagged request without
\* credential, or with one that resolves to nothing, gets the 401 of the
\* unflagged request (status, detail, WWW-Authenticate), changes no window and
\* does not reach the handler.
C22_DashboardStillAuthenticated ==
    [][ (/\ GuardRan(1)
         /\ reqs[1].guard = "require"
         /\ reqs[1].path \notin PublicPaths
         /\ reqs[1].x_dashboard = "true"
         /\ (reqs[1].api_key = "" \/ Unresolvable(reqs[1].api_key)))
        => /\ reqs'[1].status = 401
           /\ reqs'[1].pc = "respond"
           /\ reqs'[1].info = NONE
           /\ reqs'[1].st = NoState
           /\ reqs'[1].detail =
                 IF reqs[1].api_key = "" THEN DetailKeyRequired ELSE DetailKeyInvalid
           /\ reqs'[1].headers =
                 [NoHeaders EXCEPT !.www = IF reqs[1].api_key = ""
                                           THEN {"API key required"}
                                           ELSE {"API key invalid"}]
           /\ rate_limit_store' = rate_limit_store
      ]_vars

\* a flagged request with an unknown key answered 401 and, being flagged, not
\* written to the usage log
C22_Witness ==
    /\ reqs[1].pc = "done"
    /\ reqs[1].x_dashboard = "true"
    /\ reqs[1].api_key = "bogus"
    /\ reqs[1].status = 401
    /\ reqs[1].detail = DetailKeyInvalid
    /\ reqs[1].usage_calls = <<>>

\* C25: a rejected request leaves the quota state as it is: the 429 of a
\* request check_rate_limit denies changes neither count nor resetAt of the
\* key's window and reports that resetAt, in whole seconds; the 401 of
\* require_api_key, for a missing or an invalid credential, creates no window
\* and changes none.
C25_RejectionChangesNoWindow ==
    [][ (GuardRan(1) /\ reqs[1].guard = "require") =>
            /\ reqs'[1].status \in {401, 429} => rate_limit_store' = rate_limit_store
            /\ reqs'[1].status = 429 =>
                   /\ reqs'[1].qkey \in DOMAIN rate_limit_store
                   /\ reqs'[1].st.reset =
                         IntSeconds(rate_limit_store[reqs'[1].qkey].reset_at)
                   /\ reqs'[1].headers.reset = {reqs'[1].st.reset}
      ]_vars

\* a request denied 429: its key's window, the only one, still holds the
\* ceiling and the resetAt the response reports
C25_Witness ==
    /\ reqs[1].pc = "done"
    /\ reqs[1].api_key = "demo-key-free"
    /\ reqs[1].status = 429
    /\ DOMAIN rate_limit_store = {"demo-key-free"}
    /\ rate_limit_store["demo-key-free"].count = FreeLimit
    /\ reqs[1].headers.reset = {IntSeconds(rate_limit_store["demo-key-free"].reset_at)}

\* --------------------------------------------------------------- SpecAnon
\* one request at a time through optional_api_key, from two client addresses
AnonKeys == {"", "bogus"}

ClientIps == {"10.0.0.1", "10.0.0.2"}

NextAnon ==
    \/ Tick
    \/ \E k \in AnonKeys, d \in DashboardValues, ip \in ClientIps :
          Arrive(1, "optional", "/api/v1/accidents", k, "", d, ip)
    \/ Guard(1)
    \/ Handler(1)
    \/ Respond(1)

SpecAnon == InitGate /\ [][NextAnon]_vars

\* C8: on optional_api_key a request without credential is identified as
\* anon_<client address> on the free tier and counted in that key's window:
\* admitted while the window holds fewer than the free ceiling, 429 afterwards;
\* the windows of the other addresses are not changed by it.
C8_AnonymousPerAddress ==
    [][ (GuardRan(1) /\ reqs[1].guard = "optional" /\ reqs[1].api_key = "") =>
            LET q == AnonKey(reqs[1].ip)
                w == StoreGet(rate_limit_store, q)
                held == IF now > w.reset_at THEN 0 ELSE w.count
            IN  /\ reqs'[1].qkey = q
                /\ reqs'[1].st.api_key = q
                /\ reqs'[1].st.tier = "free"
                /\ reqs'[1].status = IF held < FreeLimit THEN 0 ELSE 429
                /\ q \in DOMAIN rate_limit_store'
                /\ rate_limit_store'[q].count = IF held < FreeLimit THEN held + 1 ELSE held
                /\ DOMAIN rate_limit_store' = DOMAIN rate_limit_store \cup {q}
                /\ \A k \in DOMAIN rate_limit_store \ {q} :
                      rate_limit_store'[k] = rate_limit_store[k]
      ]_vars

\* one address has exhausted its window and a caller from the other address
\* is admitted, counted in its own window
C8_Witness ==
    /\ reqs[1].pc = "done"
    /\ reqs[1].api_key = ""
    /\ reqs[1].ip = "10.0.0.2"
    /\ reqs[1].status = 200
    /\ DOMAIN rate_limit_store = {"anon_10.0.0.1", "anon_10.0.0.2"}
    /\ rate_limit_store["anon_10.0.0.1"].count = FreeLimit
    /\ now <= rate_limit_store["anon_10.0.0.1"].reset_at
    /\ rate_limit_store["anon_10.0.0.2"].count = 1

\* C10: every 429, whichever guard raises it, reaches the client with
\* X-RateLimit-Limit, X-RateLimit-Remaining = 0, X-RateLimit-Reset and a
\* Retry-After header.
C10_QuotaRejectionHeaders ==
    \A r \in Slots :
        (reqs[r].pc = "done" /\ reqs[r].status = 429)
            => /\ reqs[r].headers.limit # {}
               /\ reqs[r].headers.remaining = {Fin(0)}
               /\ reqs[r].headers.reset # {}
               /\ reqs[r].headers.retry # {}

\* ----------------------------------------------------------- SpecOptional
\* one request at a time through optional_api_key, from one address, with no
\* credential, an unknown one or a valid one
OptionalKeys == {"", "bogus", "demo-key-free"}

NextOptional ==
    \/ Tick
    \/ \E k \in OptionalKeys, d \in DashboardValues :
          Arrive(1, "optional", "/api/v1/accidents", k, "", d, "10.0.0.1")
    \/ Guard(1)
    \/ Handler(1)
    \/ Respond(1)

SpecOptional == InitGate /\ [][NextOptional]_vars

\* the count the window of quota key q holds for a call made now
Held(q) ==
    LET w == StoreGet(rate_limit_store, q)
    IN  IF now > w.reset_at THEN 0 ELSE w.count

\* C12 as stated: optional_api_key never raises; for every request it returns
\* an identity.
C12_OptionalNeverRaises ==
    [][ (GuardRan(1) /\ reqs[1].guard = "optional")
        => (reqs'[1].status = 0 /\ reqs'[1].pc = "handler" /\ reqs'[1].info # NONE)
      ]_vars

\* C12, amended: optional_api_key never raises 401. It raises 429, and nothing
\* else, exactly when the window of the request's quota key (the credential's,
\* or anon_<address> when the credential is absent or resolves to nothing)
\* already holds the tier's ceiling; otherwise it returns an identity, the
\* anonymous one when no valid credential is supplied.
C12_OptionalRaisesOnlyQuota ==
    [][ (GuardRan(1) /\ reqs[1].guard = "optional") =>
            LET k == reqs[1].api_key
                valid == k \in DEMO_API_KEYS
                q == IF valid THEN k ELSE AnonKey(reqs[1].ip)
                tier == IF valid THEN DemoTier(k) ELSE "free"
                full == IntGeq(Held(q), LimitOf(tier))
            IN  /\ reqs'[1].status = IF full THEN 429 ELSE 0
                /\ reqs'[1].pc = IF full THEN "respond" ELSE "handler"
                /\ ~full => reqs'[1].info = KeyInfo(q, tier, 0)
      ]_vars

\* a request with a valid credential rejected 429 by optional_api_key
C12_Witness ==
    /\ reqs[1].pc = "done"
    /\ reqs[1].guard = "optional"
    /\ reqs[1].api_key = "demo-key-free"
    /\ reqs[1].status = 429
    /\ reqs[1].info = KeyInfo("demo-key-free", "free", 0)

\* C29: on optional_api_key a request whose credential is present but resolves
\* to no identity is never answered 401: it is decided as the request without
\* credential from the same address is, as anon_<address> on the free tier,
\* and an accepted one is counted in that address's window and in no other.
C29_UnresolvedIsAnonymous ==
    [][ (/\ GuardRan(1)
         /\ reqs[1].guard = "optional"
         /\ Unresolvable(reqs[1].api_key)) =>
            LET a == AnonKey(reqs[1].ip)
                full == IntGeq(Held(a), LimitOf("free"))
                anon == optional_api_key([reqs[1] EXCEPT !.api_key = ""],
                                         rate_limit_store, api_keys_cache, users, db, now)
            IN  /\ reqs'[1].status = IF full THEN 429 ELSE 0
                /\ reqs'[1].qkey = a
                /\ reqs'[1].st.tier = "free"
                /\ reqs'[1].st.api_key = a
                /\ ~full => /\ reqs'[1].info = KeyInfo(a, "free", 0)
                            /\ rate_limit_store'[a].count = Held(a) + 1
                /\ full => rate_limit_store' = rate_limit_store
                /\ \A q \in DOMAIN rate_limit_store' \ {a} :
                       /\ q \in DOMAIN rate_limit_store
                       /\ rate_limit_store'[q] = rate_limit_store[q]
                /\ reqs'[1].status = anon.status
                /\ reqs'[1].info = anon.info
                /\ rate_limit_store' = anon.store
      ]_vars

\* a request with a credential no table holds, accepted and counted in the
\* window of its address
C29_Witness ==
    /\ reqs[1].pc = "done"
    /\ reqs[1].guard = "optional"
    /\ reqs[1].api_key = "bogus"
    /\ reqs[1].status = 200
    /\ reqs[1].qkey = AnonKey("10.0.0.1")
    /\ reqs[1].info = KeyInfo(AnonKey("10.0.0.1"), "free", 0)
    /\ AnonKey("10.0.0.1") \in DOMAIN rate_limit_store
    /\ "bogus" \notin DOMAIN rate_limit_store

\* C23: for a request whose credential resolves to an identity, and every
\* state of the quota windows, optional_api_key and require_api_key give the
\* same verdict and the same identity and make the same change to the quota
\* windows, on the same quota key; with X-Dashboard: true neither changes a
\* window nor denies.
C23_OptionalAgreesWithRequire ==
    \A r \in Slots :
        (/\ reqs[r].pc = "guard"
         /\ reqs[r].path \notin PublicPaths
         /\ validate_api_key(api_keys_cache, users, db, reqs[r].api_key, now).info # NONE)
            => LET a == require_api_key(reqs[r], rate_limit_store, api_keys_cache,
                                        users, db, now)
                   b == optional_api_key(reqs[r], rate_limit_store, api_keys_cache,
                                         users, db, now)
               IN  /\ a.status = b.status
                   /\ a.info = b.info
                   /\ a.store = b.store
                   /\ reqs[r].x_dashboard # "true" => a.qkey = b.qkey
                   /\ reqs[r].x_dashboard = "true"
                          => (b.store = rate_limit_store /\ b.status = 0)

\* --------------------------------------------------------------- SpecCred
\* one request at a time through require_api_key, the credential sent in the
\* header, in the query, in both or in neither
SentKeys == {"", "demo-key-free", "bogus"}

NextCred ==
    \/ Tick
    \/ \E h \in SentKeys, q \in SentKeys :
          Arrive(1, "require", "/api/v1/accidents", h, q, "", "10.0.0.1")
    \/ Guard(1)
    \/ Handler(1)
    \/ Respond(1)

SpecCred == InitGate /\ [][NextCred]_vars

\* the credential of a request: the header's value, the query's when there is
\* no header
Credential(q) == IF q.header # "" THEN q.header ELSE q.query

\* C13: the X-API-Key header, when sent, is the credential: the one resolved to
\* the identity, the one the quota is keyed on and the one in the usage record;
\* the api_key parameter is used only when the header is absent; get_api_key
\* and dispatch select the same credential.
C13_HeaderWins ==
    \A r \in Slots :
        reqs[r].pc # "idle" =>
            LET q == reqs[r]
                c == Credential(q)
            IN  /\ q.api_key = c
                /\ q.mw_key = c
                /\ q.pc \in {"handler", "respond", "done"} =>
                       /\ q.status = 401 <=> c \notin DEMO_API_KEYS
                       /\ (q.status = 401 /\ c = "") => q.detail = DetailKeyRequired
                       /\ (q.status = 401 /\ c # "") => q.detail = DetailKeyInvalid
                       /\ q.status # 401 =>
                              /\ q.info = KeyInfo(c, DemoTier(c), 0)
                              /\ q.st.api_key = c
                              /\ q.qkey = c
                /\ q.pc = "done" =>
                       /\ c # "" => /\ Len(q.usage_calls) = 1
                                    /\ q.usage_calls[1].api_key = c
                       /\ c = "" => q.usage_calls = <<>>

\* header and query differ: the header's key is admitted, counted and logged,
\* the query's unknown key is not looked at
C13_Witness ==
    /\ reqs[1].pc = "done"
    /\ reqs[1].header = "demo-key-free"
    /\ reqs[1].query = "bogus"
    /\ reqs[1].status = 200
    /\ reqs[1].qkey = "demo-key-free"
    /\ reqs[1].usage = <<[api_key |-> "demo-key-free", endpoint |-> "/api/v1/accidents",
                          status_code |-> 200, ip_address |-> "10.0.0.1",
                          user_id |-> 0]>>

\* ------------------------------------------------------------- SpecPublic
\* one request at a time: to a guarded route, to an allowlisted path behind
\* require_api_key, or to the health route, which has no guard; without
\* credential, with an unknown key or with the key of user 1
AllowlistedPaths == {"/health", "/", "/docs", "/redoc", "/openapi.json"}

PublicKeys == {"", "bogus", KeyPool[1]}

NextPublic ==
    \/ Tick
    \/ \E k \in PublicKeys, d \in DashboardValues :
          Arrive(1, "require", "/api/v1/accidents", k, "", d, "10.0.0.1")
    \/ \E p \in AllowlistedPaths, k \in PublicKeys, d \in DashboardValues :
          Arrive(1, "require", p, k, "", d, "10.0.0.1")
    \/ \E k \in PublicKeys, d \in DashboardValues :
          Arrive(1, "none", "/health", k, "", d, "10.0.0.1")
    \/ Guard(1)
    \/ Handler(1)
    \/ Respond(1)

SpecPublic == InitGate /\ [][NextPublic]_vars

\* C14: on a path of the allowlist require_api_key returns the public identity
\* and leaves the key cache and every quota window as they are, whatever the
\* credential (none, unknown, valid) and the dashboard flag; the request is
\* never answered 401 or 429.
C14_PublicBypass ==
    /\ [][ (GuardRan(1) /\ reqs[1].guard = "require"
                        /\ reqs[1].path \in AllowlistedPaths)
           => /\ reqs'[1].status = 0
              /\ reqs'[1].pc = "handler"
              /\ reqs'[1].info = KeyInfo("public", "free", 0)
              /\ reqs'[1].st = NoState
              /\ rate_limit_store' = rate_limit_store
              /\ api_keys_cache' = api_keys_cache
       ]_vars
    /\ [](\A r \in Slots :
             (reqs[r].guard = "require" /\ reqs[r].path \in AllowlistedPaths)
                 => reqs[r].status \notin {401, 429})

\* the root path answered 200 to the key of user 1 while the window of user 1
\* is full and the cache entry of the key is past its TTL: the window and the
\* entry are as they were
C14_Witness ==
    /\ reqs[1].pc = "done"
    /\ reqs[1].guard = "require"
    /\ reqs[1].path = "/"
    /\ reqs[1].api_key = KeyPool[1]
    /\ reqs[1].x_dashboard = ""
    /\ reqs[1].status = 200
    /\ reqs[1].headers.remaining = {}
    /\ "user_1" \in DOMAIN rate_limit_store
    /\ rate_limit_store["user_1"].count = FreeLimit
    /\ now <= rate_limit_store["user_1"].reset_at
    /\ KeyPool[1] \in DOMAIN api_keys_cache
    /\ now - api_keys_cache[KeyPool[1]].cached_at >= CacheTtlTicks

\* C17: no usage record is written for a request with X-Dashboard: true nor
\* for a request to a path of the allowlist, with or without a credential.
C17_NoUsageForDashboardOrPublic ==
    \A r \in Slots :
        (reqs[r].x_dashboard = "true" \/ reqs[r].path \in AllowlistedPaths)
            => (reqs[r].usage_calls = <<>> /\ reqs[r].usage = <<>>)

\* -------------------------------------------------------------- SpecUsage
\* one request at a time to a guarded route, with or without a demo key, its
\* handler returning, raising an HTTPException or raising anything else, while
\* the database is up, refuses the connection or does not answer
UsageKeys == {"", "demo-key-free"}

HandlerErrors == {404, 500}

NextUsage ==
    \/ Tick
    \/ \E k \in UsageKeys, d \in DashboardValues :
          Arrive(1, "require", "/api/v1/accidents", k, "", d, "10.0.0.1")
    \/ Guard(1)
    \/ Handler(1)
    \/ \E code \in HandlerErrors : HandlerFails(1, code)
    \/ HandlerRaises(1)
    \/ Respond(1)
    \/ \E s \in {"ok", "down", "stalled"} : SetDb(s)

SpecUsage == InitGate /\ [][NextUsage]_vars

\* dispatch has just returned the response of request r
Responded(r) == reqs[r].pc = "respond" /\ reqs'[r].pc = "done"

\* C15: log_api_usage never raises to dispatch: with the usage store
\* unreachable the call is made, no row is written, and the response has the
\* status and the headers it has when the write succeeds, those computed
\* before the call.
C15_UsageFailureAbsorbed ==
    [][ Responded(1) =>
            /\ reqs'[1].status = reqs[1].status
            /\ reqs'[1].headers = RateLimitHeaders(reqs[1].st, reqs[1].headers)
            /\ reqs'[1].detail = reqs[1].detail
            /\ (LogsUsage(reqs[1]) /\ db = "down")
                   => (Len(reqs'[1].usage_calls) = 1 /\ reqs'[1].usage = <<>>)
      ]_vars

\* a 200 with its rate-limit headers delivered although the INSERT of its usage
\* record failed
C15_Witness ==
    /\ reqs[1].pc = "done"
    /\ db = "down"
    /\ reqs[1].status = 200
    /\ reqs[1].headers.remaining = {Fin(FreeLimit - 1)}
    /\ Len(reqs[1].usage_calls) = 1
    /\ reqs[1].usage = <<>>

\* C16: the response of a request is returned without waiting for the write to
\* the usage store: whatever the store does, a request whose response is
\* computed can be answered.
C16_ResponseNotHeldByUsageWrite ==
    \A r \in Slots : reqs[r].pc = "respond" => ENABLED Respond(r)

\* C18: every completed request that is neither a dashboard request nor to a
\* public path causes exactly one call of log_api_usage, carrying the status of
\* its response, for success and error responses alike.
C18_OneUsageCallPerRequest ==
    \A r \in Slots :
        (/\ reqs[r].pc = "done"
         /\ reqs[r].x_dashboard # "true"
         /\ reqs[r].path \notin PublicPaths)
            => /\ Len(reqs[r].usage_calls) = 1
               /\ reqs[r].usage_calls[1].status_code = reqs[r].status

\* ------------------------------------------------------------ SpecResolve
\* one dashboard request at a time (no quota window is touched) with a demo
\* key, the key of user 1, a legacy key or an unknown one, while the database
\* or one of its tables goes away and comes back; the key of user 1 is a
\* generated one or a string that is also a row of api_keys
ResolveKeys == {"demo-key-dev", KeyPool[1], "legacy-key", "bogus"}

DbStates == {"ok", "down", "no_users", "no_api_keys"}

InitResolve ==
    /\ now \in 1..TicksPerSecond
    /\ rate_limit_store = <<>>
    /\ rl = NoCall
    /\ calls = <<>>
    /\ tier_of = <<>>
    /\ accepted = <<>>
    /\ replaced = <<>>
    /\ api_keys_cache = <<>>
    /\ users \in [UserIds -> {[api_key |-> k, tier |-> "free", is_active |-> TRUE] :
                                 k \in {KeyPool[1], "legacy-key"}}]
    /\ keyseq = 1
    /\ db = "ok"
    /\ reqs = [r \in Slots |-> IdleReq]

NextResolve ==
    \/ Tick
    \/ \E k \in ResolveKeys :
          Arrive(1, "require", "/api/v1/accidents", k, "", "true", "10.0.0.1")
    \/ Guard(1)
    \/ Handler(1)
    \/ Respond(1)
    \/ \E s \in DbStates : SetDb(s)

SpecResolve == InitResolve /\ [][NextResolve]_vars

\* the users with the active key k
UsersWith(k) == {u \in UserIds : users[u].api_key = k /\ users[u].is_active}

\* C19: validate_api_key resolves in this order, the first match deciding: the
\* static registry, a cache entry younger than the TTL, the users table, the
\* api_keys table, else nothing. A credential of the registry is decided by the
\* registry alone, whatever the cache and the tables hold or do.
C19_ResolutionOrder ==
    [][ (GuardRan(1) /\ reqs[1].guard = "require" /\ reqs[1].api_key # ""
                    /\ reqs[1].path \notin PublicPaths) =>
            LET k == reqs[1].api_key
                got == reqs'[1].info
            IN  IF k \in DEMO_API_KEYS
                THEN /\ got = IF DemoActive(k) THEN KeyInfo(k, DemoTier(k), 0) ELSE NONE
                     /\ api_keys_cache' = api_keys_cache
                ELSE IF k \in DOMAIN api_keys_cache
                        /\ now - api_keys_cache[k].cached_at < CacheTtlTicks
                THEN /\ got = api_keys_cache[k].info
                     /\ api_keys_cache' = api_keys_cache
                ELSE db = "ok" =>
                        IF UsersWith(k) # {}
                        THEN \E u \in UsersWith(k) : got = KeyInfo(k, users[u].tier, u)
                        ELSE IF k \in DOMAIN ApiKeysTable
                        THEN got = KeyInfo(k, ApiKeysTable[k], 0)
                        ELSE got = NONE
      ]_vars

\* a key that is in both tables resolved to the account of the users table,
\* with nothing in the cache before
C19_Witness ==
    /\ reqs[1].pc = "done"
    /\ reqs[1].api_key = "legacy-key"
    /\ users[1].api_key = "legacy-key"
    /\ reqs[1].status = 200
    /\ reqs[1].info = KeyInfo("legacy-key", "free", 1)
    /\ api_keys_cache["legacy-key"].cached_at = now

\* the lookup of credential k raises: no connection, or the table of the
\* query it has come to is missing
LookupFails(k) ==
    \/ db \in {"down", "no_users"}
    \/ db = "no_api_keys" /\ UsersWith(k) = {}

\* C20: when the store fails during the resolution of a credential that is
\* not in the registry and has no cache entry younger than the TTL,
\* validate_api_key returns None without raising and require_api_key answers
\* 401 Invalid API key: the request is never accepted.
C20_FailClosed ==
    [][ (/\ GuardRan(1)
         /\ reqs[1].guard = "require"
         /\ reqs[1].path \notin PublicPaths
         /\ reqs[1].api_key # ""
         /\ reqs[1].api_key \notin DEMO_API_KEYS
         /\ ~(/\ reqs[1].api_key \in DOMAIN api_keys_cache
              /\ now - api_keys_cache[reqs[1].api_key].cached_at < CacheTtlTicks)
         /\ LookupFails(reqs[1].api_key))
        => /\ reqs'[1].status = 401
           /\ reqs'[1].detail = DetailKeyInvalid
           /\ reqs'[1].pc = "respond"
           /\ reqs'[1].info = NONE
           /\ api_keys_cache' = api_keys_cache
      ]_vars

\* the key of user 1, good in the users table and in the cache past its TTL,
\* answered 401 while the database is down
C20_Witness ==
    /\ reqs[1].pc = "done"
    /\ db = "down"
    /\ users[1].api_key = KeyPool[1]
    /\ reqs[1].api_key = KeyPool[1]
    /\ reqs[1].status = 401
    /\ reqs[1].detail = <<"Invalid API key">>
    /\ KeyPool[1] \in DOMAIN api_keys_cache

\* C21: an absent table yields no match from that table and nothing more: with
\* the users table absent a credential active in api_keys resolves to its
\* identity, and with the api_keys table absent a credential active in users
\* resolves to its identity.
C21_AbsentTableTolerated ==
    [][ (/\ GuardRan(1)
         /\ reqs[1].guard = "require"
         /\ reqs[1].path \notin PublicPaths
         /\ reqs[1].api_key # ""
         /\ reqs[1].api_key \notin DEMO_API_KEYS
         /\ ~(/\ reqs[1].api_key \in DOMAIN api_keys_cache
              /\ now - api_keys_cache[reqs[1].api_key].cached_at < CacheTtlTicks))
        => LET k == reqs[1].api_key
           IN  /\ (db = "no_users" /\ k \in DOMAIN ApiKeysTable)
                      => reqs'[1].info = KeyInfo(k, ApiKeysTable[k], 0)
               /\ (db = "no_api_keys" /\ UsersWith(k) # {})
                      => \E u \in UsersWith(k) :
                            reqs'[1].info = KeyInfo(k, users[u].tier, u)
      ]_vars

\* --------------------------------------------------------------- SpecConc
\* NReq requests of one credential in flight together, each slot used once
NextConc ==
    \/ Tick
    \/ \E r \in Slots :
          /\ reqs[r].pc = "idle"
          /\ Arrive(r, "require", "/api/v1/accidents", "demo-key-free", "", "",
                    "10.0.0.1")
    \/ \E r \in Slots : Guard(r)
    \/ \E r \in Slots : Handler(r)
    \/ \E r \in Slots : Respond(r)

SpecConc == InitGate /\ [][NextConc]_vars

\* the requests the quota check has decided
Checked == {r \in Slots : reqs[r].pc \in {"handler", "respond", "done"}}

\* those decided in the window that resets at second s
InWindow(q, s) == {r \in Checked : reqs[r].qkey = q /\ reqs[r].st.reset = s}

Admitted(q, s) == {r \in InWindow(q, s) : reqs[r].status # 429}

\* C2: of the requests of one quota key decided in one window, whatever their
\* interleaving, at most `limit` are admitted, no two of them on the same
\* remaining slot, and a request is denied only when all `limit` slots are
\* taken: N requests in flight on k < N remaining slots end k admitted and
\* N - k denied.
C2_NoOverAdmission ==
    \A r \in Checked :
        LET q == reqs[r].qkey
            s == reqs[r].st.reset
            limit == LimitOf(reqs[r].st.tier).n
        IN  /\ Cardinality(Admitted(q, s)) <= limit
            /\ \A a, b \in Admitted(q, s) :
                  a # b => reqs[a].st.remaining # reqs[b].st.remaining
            /\ InWindow(q, s) # Admitted(q, s) => Cardinality(Admitted(q, s)) = limit

\* all NReq requests in flight at once, decided in one window: FreeLimit of
\* them admitted and the others denied
C2_Witness ==
    /\ \A r \in Slots : reqs[r].pc \in {"handler", "respond"}
    /\ \A r \in Slots : reqs[r].st.reset = reqs[1].st.reset
    /\ Cardinality(Admitted("demo-key-free", reqs[1].st.reset)) = FreeLimit
    /\ Cardinality(InWindow("demo-key-free", reqs[1].st.reset)) = NReq

\* ------------------------------------------------------------- SpecRotate
\* requests in flight with keys of user 1, who regenerates the key; each slot
\* is used once
RotateSlots == {1, 2}

UserKeys == {KeyPool[i] : i \in 1..Len(KeyPool)}

NextRotate ==
    \/ Tick
    \/ \E r \in RotateSlots, g \in {"require", "optional"}, k \in UserKeys,
          d \in DashboardValues :
          /\ reqs[r].pc = "idle"
          /\ Arrive(r, g, "/api/v1/accidents", k, "", d, "10.0.0.1")
    \/ \E r \in RotateSlots : Guard(r)
    \/ \E r \in RotateSlots : Handler(r)
    \/ \E r \in RotateSlots : Respond(r)
    \/ \E u \in UserIds : regenerate_api_key(u)

SpecRotate == InitGate /\ [][NextRotate]_vars

\* the guard of request r has just admitted it, not as a dashboard request
AdmitsExternal(r) ==
    /\ reqs[r].pc = "guard"
    /\ reqs'[r].pc = "handler"
    /\ ~reqs'[r].st.is_dashboard

\* C3: every admitted non-dashboard request whose credential resolves to user u
\* is counted in the window user_<u> and in no other; regenerate-api-key changes
\* no window, so requests with the new key continue from the recorded count.
C3_RotationPreservesQuota ==
    [][ /\ (\E u \in UserIds : users'[u].api_key # users[u].api_key)
            => rate_limit_store' = rate_limit_store
        /\ \A r \in RotateSlots :
              (AdmitsExternal(r) /\ reqs'[r].info.user_id # 0) =>
                  LET q == UserQuotaKey(reqs'[r].info.user_id)
                      w == StoreGet(rate_limit_store, q)
                  IN  /\ DOMAIN rate_limit_store' = DOMAIN rate_limit_store \cup {q}
                      /\ \A k \in DOMAIN rate_limit_store \ {q} :
                            rate_limit_store'[k] = rate_limit_store[k]
                      /\ rate_limit_store'[q] =
                            IF now > w.reset_at
                            THEN [count |-> 1, reset_at |-> now + WindowTicks]
                            ELSE [count |-> w.count + 1, reset_at |-> w.reset_at]
      ]_vars

\* a request with the first key and one with its replacement are admitted in the
\* same window of user 1, the second on the slot after the first's
C3_Witness ==
    /\ reqs[1].pc = "done" /\ reqs[1].status = 200 /\ reqs[1].api_key = KeyPool[1]
    /\ reqs[2].pc = "done" /\ reqs[2].status = 200 /\ reqs[2].api_key = KeyPool[2]
    /\ users[1].api_key = KeyPool[2]
    /\ ~reqs[1].st.is_dashboard /\ ~reqs[2].st.is_dashboard
    /\ reqs[1].st.reset = reqs[2].st.reset
    /\ reqs[2].st.remaining = XSub(reqs[1].st.remaining, 1)
    /\ DOMAIN rate_limit_store = {"user_1"}

\* -------------------------------------------------------------- SpecStale
\* one request at a time with the first key of user 1, resolved in one step or
\* with the time its queries take, while the key is regenerated or the user
\* deactivated
StaleKeys == {KeyPool[1]}

InitStale ==
    /\ now \in 1..TicksPerSecond
    /\ rate_limit_store = <<>>
    /\ rl = NoCall
    /\ calls = <<>>
    /\ tier_of = <<>>
    /\ accepted = <<>>
    /\ replaced = [k \in StaleKeys |-> 0]
    /\ GateIdle

NextStale ==
    \/ Tick
    \/ \E k \in StaleKeys :
          Arrive(1, "require", "/api/v1/accidents", k, "", "true", "10.0.0.1")
    \/ Guard(1)
    \/ GuardQuery(1)
    \/ GuardResume(1)
    \/ Handler(1)
    \/ Respond(1)
    \/ \E u \in UserIds : regenerate_api_key(u)
    \/ \E u \in UserIds : deactivate(u)

SpecStale == InitStale /\ [][NextStale]_vars

\* C27: the key cache is written only on a successful store lookup: an entry
\* that a step creates or changes belongs to a credential outside the registry,
\* is stamped with the time of the step, and holds an identity the tables hold
\* for the credential at that time; every other step leaves the cache as it is.
C27_CacheWrittenOnSuccessOnly ==
    [][\A k \in DOMAIN api_keys_cache' :
          (k \notin DOMAIN api_keys_cache \/ api_keys_cache'[k] # api_keys_cache[k])
          => /\ k \notin DEMO_API_KEYS
             /\ api_keys_cache'[k].cached_at = now
             /\ api_keys_cache'[k].info \in StoreAnswers(k)
      ]_vars

\* C28: once the record of a credential was replaced or deactivated at time t,
\* a validate_api_key call for it that starts at t + TTL or later returns None.
C28_ChangeReflectedWithinTtl ==
    [][\A k \in DOMAIN replaced :
          (/\ reqs[1].pc = "guard"
           /\ reqs'[1].pc # "guard"
           /\ reqs[1].api_key = k
           /\ replaced[k] # 0
           /\ now >= replaced[k] + CacheTtlTicks)
          => /\ reqs'[1].info = NONE
             /\ reqs'[1].found = NONE
      ]_vars

\* -------------------------------------------------------------- SpecStall
\* one request at a time with a key that only the database can resolve, while
\* the database stops answering and answers again
StallKeys == {KeyPool[1], "bogus"}

NextStall ==
    \/ Tick
    \/ \E k \in StallKeys :
          Arrive(1, "require", "/api/v1/accidents", k, "", "true", "10.0.0.1")
    \/ Guard(1)
    \/ Handler(1)
    \/ Respond(1)
    \/ \E s \in {"ok", "stalled"} : SetDb(s)

SpecStall == InitGate /\ [][NextStall]_vars

\* C30: identity resolution always terminates: whatever the database does, a
\* request that has reached require_api_key can be given its verdict; a
\* database that does not answer does not keep it waiting.
C30_ResolutionTerminates ==
    \A r \in Slots :
        (reqs[r].pc = "guard" /\ reqs[r].guard = "require") => ENABLED Guard(r)

\* -------------------------------------------------------------- SpecCache
\* one request at a time with a key of user 1 or a legacy key, while the
\* user regenerates the key and the database goes down and comes back
CacheKeys == UserKeys \cup {"legacy-key"}

NextCache ==
    \/ Tick
    \/ \E k \in CacheKeys :
          Arrive(1, "require", "/api/v1/accidents", k, "", "", "10.0.0.1")
    \/ Guard(1)
    \/ Handler(1)
    \/ Respond(1)
    \/ \E u \in UserIds : regenerate_api_key(u)
    \/ \E s \in {"ok", "down"} : SetDb(s)

SpecCache == InitGate /\ [][NextCache]_vars

\* C6: validate_api_key never returns an identity from a cache entry whose age
\* is the TTL or more: the credential is resolved against the store again, and
\* the result is the store's current answer, or None.
C6_StaleEntryNotServed ==
    [][ (/\ GuardRan(1)
         /\ reqs[1].api_key \in DOMAIN api_keys_cache
         /\ now - api_keys_cache[reqs[1].api_key].cached_at >= CacheTtlTicks)
        => /\ reqs'[1].info \in {NONE} \cup StoreAnswers(reqs[1].api_key)
           /\ (db = "ok" /\ StoreAnswers(reqs[1].api_key) # {}) => reqs'[1].info # NONE
      ]_vars

\* the replaced key, still in the cache past its TTL, is answered 401
C6_Witness ==
    /\ reqs[1].pc = "done"
    /\ reqs[1].api_key = KeyPool[1]
    /\ reqs[1].status = 401
    /\ KeyPool[1] \in DOMAIN api_keys_cache
    /\ users[1].api_key = KeyPool[2]
    /\ db = "ok"

====
